---- MODULE Spec2Model ----
(***************************************************************************)
(* A model of the chat backend of osint-chatbot (src/app.py): the three    *)
(* tables created by init_db, the /sessions and /chat handlers, and the    *)
(* background thread update_long_term_memory.  Every request runs on its   *)
(* own thread, so a handler is cut into steps at its blocking calls (the   *)
(* store and the model provider); the steps of different requests and of   *)
(* the background threads interleave freely.                               *)
(*                                                                         *)
(* Spec          /sessions (POST), /chat with all its exits, and the       *)
(*               refinement threads.                                       *)
(* SpecSessions  the session pages: /sessions, /sessions/<id>,             *)
(*               /history/<id>, next to /chat requests that go through.    *)
(* SpecAssemble  the assembly of the provider request (lines 198-272)      *)
(*               over every stored history window.                         *)
(***************************************************************************)
EXTENDS Integers, Sequences, FiniteSets, TLC

\* ------------------------------------------------------------------ bounds
\* Number of /chat requests that arrive in a behaviour.
MaxTurns == 2
\* Number of rows the sessions table can hold (POST /sessions stops there).
MaxSessions == 1
\* Exchanges (a user row and a bot row) already in session 1 at the start.
MaxPrior == 2

\* ------------------------------------------------------- program constants
\* LIMIT 5 of the history query.
HistoryLimit == 5
\* len(img_data) > 100: shorter stored attachments are not decoded.
MinImageLength == 100

Turns == 1..MaxTurns
\* Authenticated user ids (verify_user's uid).
Users == {"u1", "u2"}
\* What verify_user yields for a request without a valid bearer token.
Anonymous == "anon"
SessionIds == 1..MaxSessions
\* request.form.get('message', ''): absent or present.
Texts == {"", "q"}
\* request.files.get('image'): absent, an image PIL decodes, one it does not.
ImageFiles == {"none", "valid", "corrupt"}

DefaultTitle == "New Investigation"
\* The dossier text is modelled as the set of facts it states; fact 0 is the
\* sentence "No prior information.", fact t > 0 is what turn t's exchange adds.
NoPriorInformation == {0}

VARIABLES
    sessions,       \* table sessions: rows [id, user_id, title]
    messages,       \* table messages, committed rows
    user_profiles,  \* table user_profiles: rows [user_id, profile_data]
    msgSeq,         \* the SERIAL sequence of messages.id (last value given)
    sessSeq,        \* the SERIAL sequence of sessions.id
    arrived,        \* number of /chat requests received so far
    turn,           \* per /chat request: its locals and its position
    tx,             \* per /chat request: rows inserted and not yet committed
    ref,            \* per /chat request: the thread it started, if any
    api             \* the latest /sessions or /history request: locals, position

vars == <<sessions, messages, user_profiles, msgSeq, sessSeq, arrived, turn, tx, ref, api>>

\* ----------------------------------------------------------------- helpers
Reverse(s) == [i \in 1..Len(s) |-> s[Len(s) + 1 - i]]

Take(s, n) == SubSeq(s, 1, IF Len(s) < n THEN Len(s) ELSE n)

\* ORDER BY id DESC over a set of rows.
RECURSIVE OrderByIdDesc(_)
OrderByIdDesc(rows) ==
    IF rows = {} THEN <<>>
    ELSE LET top == CHOOSE r \in rows : \A o \in rows : o.id <= r.id
         IN <<top>> \o OrderByIdDesc(rows \ {top})

SessionRows(table, sid) == {m \in table : m.session_id = sid}

\* FetchHistory without the [::-1] of line 210: newest first.
FetchHistoryNewestFirst(table, sid) ==
    Take(OrderByIdDesc(SessionRows(table, sid)), HistoryLimit)

\* SELECT ... FROM messages WHERE session_id = sid ORDER BY id DESC LIMIT 5,
\* then [::-1].
FetchHistory(table, sid) ==
    Reverse(Take(OrderByIdDesc(SessionRows(table, sid)), HistoryLimit))

\* get_long_term_memory returning row[0] of whatever fetchone gave: nothing
\* when the owner has no row.
get_long_term_memory_no_default(table, u) ==
    LET rows == {p \in table : p.user_id = u}
    IN IF rows = {} THEN {}
       ELSE (CHOOSE p \in rows : TRUE).profile_data

\* get_long_term_memory: the row's profile_data, or the sentinel.
get_long_term_memory(table, u) ==
    LET rows == {p \in table : p.user_id = u}
    IN IF rows = {} THEN NoPriorInformation
       ELSE (CHOOSE p \in rows : TRUE).profile_data

\* ------------------------------------------------------ the model provider
\* What the refinement prompt asks of the provider: the dossier it was given
\* (the sentinel states no fact) with the facts of the latest exchange added.
RefinedDossier(current_memory, t) == (current_memory \ NoPriorInformation) \cup {t}

\* An exception of client.models.generate_content, as str(e) reports it.
ProviderErrors == {"RateLimited", "ProviderUnavailable"}

\* ------------------------------------------------------------- /chat locals
\* Image.open(...).convert('RGB').save(JPEG) and base64.b64encode: the
\* encoded text, or None when there is no file or PIL raises.
EncodeImage(image_file) == IF image_file = "valid" THEN "b64" ELSE "none"

\* What the column image_data can hold: NULL, the base64 text /chat wrote,
\* that text cut so that its padding is wrong, a stub of at most 100
\* characters, and a text of the right shape that is not the encoding of
\* an image.
StoredImages == {"none", "b64", "truncated", "short", "garbled"}

\* len(img_data).
B64Length(text) ==
    IF text = "none" THEN 0
    ELSE IF text = "short" THEN MinImageLength
    ELSE MinImageLength + 1

\* base64.b64decode: the bytes, or "Error" where it raises binascii.Error.
\* It looks at the padding only, so a garbled text decodes to bytes that
\* are no image.
B64Decode(text) ==
    IF text = "b64" THEN "jpeg"
    ELSE IF text = "garbled" THEN "bytes"
    ELSE "Error"

\* HistoryContent with the try of lines 240-246 around the whole row: a
\* row whose attachment does not decode yields no part at all.
HistoryContentDroppingRow(row) ==
    LET role == IF row.sender = "user" THEN "user" ELSE "model"
        textPart == IF row.content # "" THEN <<[kind |-> "text", data |-> row.content]>>
                    ELSE <<>>
        decodes == B64Length(row.image_data) > MinImageLength
                   /\ B64Decode(row.image_data) # "Error"
    IN IF row.has_image /\ row.image_data # "none"
       THEN IF decodes
            THEN [role |-> role,
                  parts |-> textPart \o <<[kind |-> "image", data |-> B64Decode(row.image_data)]>>]
            ELSE [role |-> role, parts |-> <<>>]
       ELSE [role |-> role, parts |-> textPart]

\* One types.Content per history row that yields a part.
HistoryContent(row) ==
    LET role == IF row.sender = "user" THEN "user" ELSE "model"
        textPart == IF row.content # "" THEN <<[kind |-> "text", data |-> row.content]>>
                    ELSE <<>>
        imagePart == IF /\ row.has_image /\ row.image_data # "none"
                        /\ B64Length(row.image_data) > MinImageLength
                        /\ B64Decode(row.image_data) # "Error"
                     THEN <<[kind |-> "image", data |-> B64Decode(row.image_data)]>>
                     ELSE <<>>
    IN [role |-> role, parts |-> textPart \o imagePart]

RECURSIVE HistoryContents(_)
HistoryContents(history) ==
    IF history = <<>> THEN <<>>
    ELSE LET c == HistoryContent(Head(history))
         IN (IF c.parts # <<>> THEN <<c>> ELSE <<>>) \o HistoryContents(Tail(history))

\* current_parts of the request.
CurrentParts(user_text, image_b64) ==
    (IF user_text # "" THEN <<[kind |-> "text", data |-> user_text]>> ELSE <<>>)
    \o (IF image_b64 # "none" THEN <<[kind |-> "image", data |-> B64Decode(image_b64)]>>
        ELSE <<>>)

BuildContents(history, user_text, image_b64) ==
    HistoryContents(history)
    \o (IF CurrentParts(user_text, image_b64) # <<>>
        THEN <<[role |-> "user", parts |-> CurrentParts(user_text, image_b64)]>>
        ELSE <<>>)

NoResponse == [status |-> 0, body |-> ""]

IdleTurn ==
    [pc |-> "idle", user_id |-> Anonymous, session_id |-> 0, user_text |-> "",
     image_b64 |-> "none", history |-> <<>>,
     user_profile |-> NoPriorInformation, contents |-> <<>>, calls |-> 0,
     ai_reply |-> "", title_calls |-> 0, titled |-> "no", target |-> "none",
     conn |-> "none", response |-> NoResponse]

\* A /sessions or /history request.  conn is the state of the connection
\* it opened; target tells what the session it names was when it arrived.
IdleApi ==
    [op |-> "none", pc |-> "idle", user_id |-> Anonymous, session_id |-> 0,
     target |-> "none", conn |-> "none", rows |-> <<>>, response |-> NoResponse]

\* What session sid is to user u: "own", "foreign" (somebody else's) or
\* "missing" (no such row).
Target(table, sid, u) ==
    IF \E s \in table : s.id = sid /\ s.user_id = u THEN "own"
    ELSE IF \E s \in table : s.id = sid THEN "foreign"
    ELSE "missing"

IdleRefiner == [pc |-> "none", user_id |-> Anonymous, current_memory |-> {}, new_memory |-> {}]

\* The row of the first INSERT of /chat.
UserRow(t, id) ==
    [id |-> id, session_id |-> turn[t].session_id, sender |-> "user",
     content |-> turn[t].user_text, has_image |-> turn[t].image_b64 # "none",
     image_data |-> turn[t].image_b64, turn |-> t]

\* The row of the second INSERT of /chat.
BotRow(t, id) ==
    [id |-> id, session_id |-> turn[t].session_id, sender |-> "bot",
     content |-> turn[t].ai_reply, has_image |-> FALSE, image_data |-> "none",
     turn |-> t]

\* messages.session_id REFERENCES sessions(id).
SessionExists(sid) == \E s \in sessions : s.id = sid

\* The rows session 1 holds after k earlier exchanges (turns 0, -1, ...).
PriorRows(k) ==
    UNION {{[id |-> 2 * j - 1, session_id |-> 1, sender |-> "user", content |-> "q",
             has_image |-> FALSE, image_data |-> "none", turn |-> 1 - j],
            [id |-> 2 * j, session_id |-> 1, sender |-> "bot", content |-> "reply",
             has_image |-> FALSE, image_data |-> "none", turn |-> 1 - j]} : j \in 1..k}

\* -------------------------------------------------------------------- Init
\* The store after init_db: either empty, or after one POST /sessions by u1
\* and MaxPrior exchanges in that session whose refinements did not complete.
Init ==
    \E k \in {0, MaxPrior} :
        /\ sessions = IF k = 0 THEN {}
                      ELSE {[id |-> 1, user_id |-> "u1", title |-> "Generated"]}
        /\ messages = PriorRows(k)
        /\ user_profiles = {}
        /\ msgSeq = 2 * k
        /\ sessSeq = IF k = 0 THEN 0 ELSE 1
        /\ arrived = 0
        /\ turn = [t \in Turns |-> IdleTurn]
        /\ tx = [t \in Turns |-> {}]
        /\ ref = [t \in Turns |-> IdleRefiner]
        /\ api = IdleApi

\* --------------------------------------------------------- POST /sessions
\* Lines 152-162: the row is inserted and committed and its id returned;
\* neither the cursor nor the connection is closed.
handle_sessions_post(u) ==
    /\ api.pc \in {"idle", "done"}
    /\ sessSeq < MaxSessions
    /\ sessSeq' = sessSeq + 1
    /\ sessions' = sessions \cup {[id |-> sessSeq + 1, user_id |-> u, title |-> DefaultTitle]}
    /\ api' = [IdleApi EXCEPT !.op = "create", !.pc = "done", !.user_id = u,
                              !.session_id = sessSeq + 1, !.conn = "open",
                              !.response = [status |-> 200, body |-> DefaultTitle]]
    /\ UNCHANGED <<messages, user_profiles, msgSeq, arrived, turn, tx, ref>>

\* -------------------------------------------------------------- POST /chat
\* Lines 198-199: no valid bearer token.
chat_unauthorized(t) ==
    /\ t = arrived + 1
    /\ arrived' = t
    /\ turn' = [turn EXCEPT ![t].pc = "done",
                            ![t].response = [status |-> 401, body |-> "Unauthorized"]]
    /\ UNCHANGED <<sessions, messages, user_profiles, msgSeq, sessSeq, tx, ref, api>>

\* Lines 205-212 with the store unreachable or a query raising: the outer
\* except answers 500 before the provider is called.
chat_store_down(t) ==
    /\ t = arrived + 1
    /\ arrived' = t
    /\ \E conn \in {"none", "open"} :
          turn' = [turn EXCEPT ![t].pc = "done", ![t].conn = conn,
                               ![t].response = [status |-> 500, body |-> "StoreError"]]
    /\ UNCHANGED <<sessions, messages, user_profiles, msgSeq, sessSeq, tx, ref, api>>

\* Lines 198-272: the form is read, the history window and the dossier are
\* fetched, the request to the provider is built.
chat_assemble(t, u, sid, text, image) ==
    /\ t = arrived + 1
    /\ arrived' = t
    /\ LET history == FetchHistory(messages, sid)
           image_b64 == EncodeImage(image)
       IN turn' = [turn EXCEPT ![t] =
            [IdleTurn EXCEPT !.pc = "generate", !.user_id = u, !.session_id = sid,
                             !.user_text = text, !.image_b64 = image_b64,
                             !.history = history, !.conn = "open",
                             !.target = Target(sessions, sid, u),
                             !.user_profile = get_long_term_memory(user_profiles, u),
                             !.contents = BuildContents(history, text, image_b64)]]
    /\ UNCHANGED <<sessions, messages, user_profiles, msgSeq, sessSeq, tx, ref, api>>

\* The outer except of chat: the transaction is dropped, 500 with str(e).
ChatFails(t, error) ==
    /\ turn' = [turn EXCEPT ![t].pc = "done",
                            ![t].response = [status |-> 500, body |-> error]]
    /\ tx' = [tx EXCEPT ![t] = {}]

\* Lines 275-283, the provider answers.
chat_generate(t) ==
    /\ turn[t].pc = "generate"
    /\ turn' = [turn EXCEPT ![t].pc = "insert_user", ![t].calls = @ + 1,
                            ![t].ai_reply = "reply"]
    /\ UNCHANGED <<sessions, messages, user_profiles, msgSeq, sessSeq, arrived, tx, ref, api>>

\* chat_generate_error with the user's row written and committed before the
\* provider is called, so that the error leaves it behind.
chat_generate_error_after_save(t, error) ==
    /\ turn[t].pc = "generate"
    /\ msgSeq' = msgSeq + 1
    /\ messages' = messages \cup {UserRow(t, msgSeq + 1)}
    /\ turn' = [turn EXCEPT ![t].pc = "done", ![t].calls = @ + 1,
                            ![t].response = [status |-> 500, body |-> error]]
    /\ UNCHANGED <<sessions, user_profiles, sessSeq, arrived, tx, ref, api>>

\* Lines 275-283, the provider raises.
chat_generate_error(t, error) ==
    /\ turn[t].pc = "generate"
    /\ turn' = [turn EXCEPT ![t].pc = "done", ![t].calls = @ + 1,
                            ![t].response = [status |-> 500, body |-> error]]
    /\ UNCHANGED <<sessions, messages, user_profiles, msgSeq, sessSeq, arrived, tx, ref, api>>

\* chat_insert_user on an autocommit connection: the user's row is visible
\* at once, whatever happens to the second INSERT.
chat_insert_user_autocommit(t) ==
    /\ turn[t].pc = "insert_user"
    /\ msgSeq' = msgSeq + 1
    /\ IF SessionExists(turn[t].session_id)
       THEN /\ messages' = messages \cup {UserRow(t, msgSeq + 1)}
            /\ turn' = [turn EXCEPT ![t].pc = "insert_bot"]
            /\ tx' = tx
       ELSE /\ ChatFails(t, "ForeignKeyViolation")
            /\ messages' = messages
    /\ UNCHANGED <<sessions, user_profiles, sessSeq, arrived, ref, api>>

\* chat_insert_user waiting for a per-session lock: it inserts only when no
\* other request holds uncommitted rows of the same session.
chat_insert_user_serialized(t) ==
    /\ turn[t].pc = "insert_user"
    /\ \A o \in Turns \ {t} : \A m \in tx[o] : m.session_id # turn[t].session_id
    /\ msgSeq' = msgSeq + 1
    /\ IF SessionExists(turn[t].session_id)
       THEN /\ tx' = [tx EXCEPT ![t] = @ \cup {UserRow(t, msgSeq + 1)}]
            /\ turn' = [turn EXCEPT ![t].pc = "insert_bot"]
       ELSE ChatFails(t, "ForeignKeyViolation")
    /\ UNCHANGED <<sessions, messages, user_profiles, sessSeq, arrived, ref, api>>

\* Lines 286-287: the user's row; a foreign-key violation raises.
chat_insert_user(t) ==
    /\ turn[t].pc = "insert_user"
    /\ msgSeq' = msgSeq + 1
    /\ IF SessionExists(turn[t].session_id)
       THEN /\ tx' = [tx EXCEPT ![t] = @ \cup {UserRow(t, msgSeq + 1)}]
            /\ turn' = [turn EXCEPT ![t].pc = "insert_bot"]
       ELSE ChatFails(t, "ForeignKeyViolation")
    /\ UNCHANGED <<sessions, messages, user_profiles, sessSeq, arrived, ref, api>>

\* chat_insert_bot with the thread of lines 292-293 started before the
\* commit of line 290.
chat_insert_bot_then_spawn(t) ==
    /\ turn[t].pc = "insert_bot"
    /\ msgSeq' = msgSeq + 1
    /\ tx' = [tx EXCEPT ![t] = @ \cup {BotRow(t, msgSeq + 1)}]
    /\ turn' = [turn EXCEPT ![t].pc = "commit"]
    /\ ref' = IF turn[t].user_text # ""
              THEN [ref EXCEPT ![t] = [IdleRefiner EXCEPT !.pc = "read",
                                                         !.user_id = turn[t].user_id]]
              ELSE ref
    /\ UNCHANGED <<sessions, messages, user_profiles, sessSeq, arrived, api>>

\* Lines 288-289: the reply's row.
chat_insert_bot(t) ==
    /\ turn[t].pc = "insert_bot"
    /\ msgSeq' = msgSeq + 1
    /\ tx' = [tx EXCEPT ![t] = @ \cup {BotRow(t, msgSeq + 1)}]
    /\ turn' = [turn EXCEPT ![t].pc = "commit"]
    /\ UNCHANGED <<sessions, messages, user_profiles, sessSeq, arrived, ref, api>>

\* Line 290: both rows become visible.
chat_commit(t) ==
    /\ turn[t].pc = "commit"
    /\ messages' = messages \cup tx[t]
    /\ tx' = [tx EXCEPT ![t] = {}]
    /\ turn' = [turn EXCEPT ![t].pc = "spawn"]
    /\ UNCHANGED <<sessions, user_profiles, msgSeq, sessSeq, arrived, ref, api>>

\* Lines 286-290 with the store failing at one of the three calls.
chat_store_error(t) ==
    /\ turn[t].pc \in {"insert_user", "insert_bot", "commit"}
    /\ ChatFails(t, "StoreError")
    /\ UNCHANGED <<sessions, messages, user_profiles, msgSeq, sessSeq, arrived, ref, api>>

\* Lines 302-304: the handler's return.
Reply(t) == [status |-> 200, body |-> turn[t].ai_reply]

\* chat_spawn without the test of line 292: the thread is started for every
\* committed turn.
chat_spawn_unconditional(t) ==
    /\ turn[t].pc = "spawn"
    /\ ref' = [ref EXCEPT ![t] = [IdleRefiner EXCEPT !.pc = "read",
                                                    !.user_id = turn[t].user_id]]
    /\ turn' = IF Len(turn[t].history) = 0
               THEN [turn EXCEPT ![t].pc = "title"]
               ELSE [turn EXCEPT ![t].pc = "done", ![t].response = Reply(t)]
    /\ UNCHANGED <<sessions, messages, user_profiles, msgSeq, sessSeq, arrived, tx, api>>

\* Lines 292-295: the thread is started when the text is not empty.  When
\* the window was not empty the handler returns (lines 302-304).
chat_spawn(t) ==
    /\ turn[t].pc = "spawn"
    /\ ref' = IF turn[t].user_text # ""
              THEN [ref EXCEPT ![t] = [IdleRefiner EXCEPT !.pc = "read",
                                                         !.user_id = turn[t].user_id]]
              ELSE ref
    /\ turn' = IF Len(turn[t].history) = 0
               THEN [turn EXCEPT ![t].pc = "title"]
               ELSE [turn EXCEPT ![t].pc = "done", ![t].conn = "closed",
                                 ![t].response = Reply(t)]
    /\ UNCHANGED <<sessions, messages, user_profiles, msgSeq, sessSeq, arrived, tx, api>>

\* UPDATE sessions SET title = ... WHERE id = sid.
SetTitle(table, sid, title) ==
    {IF s.id = sid THEN [s EXCEPT !.title = title] ELSE s : s \in table}

\* Lines 296-304: the title call answers, the title is written, the
\* handler returns.
chat_title(t) ==
    /\ turn[t].pc = "title"
    /\ sessions' = SetTitle(sessions, turn[t].session_id, "Generated")
    /\ turn' = [turn EXCEPT ![t].pc = "done", ![t].title_calls = @ + 1,
                            ![t].titled = "ok", ![t].conn = "closed",
                            ![t].response = Reply(t)]
    /\ UNCHANGED <<messages, user_profiles, msgSeq, sessSeq, arrived, tx, ref, api>>

\* chat_title_error without the try of lines 296-300: the exception
\* reaches the outer except of line 306.
chat_title_error_raises(t) ==
    /\ turn[t].pc = "title"
    /\ turn' = [turn EXCEPT ![t].pc = "done", ![t].title_calls = @ + 1,
                            ![t].titled = "failed",
                            ![t].response = [status |-> 500, body |-> "ProviderUnavailable"]]
    /\ UNCHANGED <<sessions, messages, user_profiles, msgSeq, sessSeq, arrived, tx, ref, api>>

\* Lines 296-304: the title call or the update raises; except: pass, and
\* the handler returns.
chat_title_error(t) ==
    /\ turn[t].pc = "title"
    /\ turn' = [turn EXCEPT ![t].pc = "done", ![t].title_calls = @ + 1,
                            ![t].titled = "failed", ![t].conn = "closed",
                            ![t].response = Reply(t)]
    /\ UNCHANGED <<sessions, messages, user_profiles, msgSeq, sessSeq, arrived, tx, ref, api>>

\* ------------------------------------------------ update_long_term_memory
\* Upsert without the ON CONFLICT clause and without the primary key.
UpsertInsertOnly(table, u, data) == table \cup {[user_id |-> u, profile_data |-> data]}

\* Upsert that merges the new dossier into the one the row holds.
UpsertMerging(table, u, data) ==
    IF \E p \in table : p.user_id = u
    THEN {IF p.user_id = u THEN [p EXCEPT !.profile_data = @ \cup data] ELSE p : p \in table}
    ELSE table \cup {[user_id |-> u, profile_data |-> data]}

\* INSERT ... ON CONFLICT (user_id) DO UPDATE SET profile_data = EXCLUDED.profile_data
Upsert(table, u, data) ==
    IF \E p \in table : p.user_id = u
    THEN {IF p.user_id = u THEN [p EXCEPT !.profile_data = data] ELSE p : p \in table}
    ELSE table \cup {[user_id |-> u, profile_data |-> data]}

\* Line 79.
refiner_read(t) ==
    /\ ref[t].pc = "read"
    /\ ref' = [ref EXCEPT ![t].pc = "generate",
                          ![t].current_memory = get_long_term_memory(user_profiles, ref[t].user_id)]
    /\ UNCHANGED <<sessions, messages, user_profiles, msgSeq, sessSeq, arrived, turn, tx, api>>

\* Lines 80-82.
refiner_generate(t) ==
    /\ ref[t].pc = "generate"
    /\ ref' = [ref EXCEPT ![t].pc = "upsert",
                          ![t].new_memory = RefinedDossier(ref[t].current_memory, t)]
    /\ UNCHANGED <<sessions, messages, user_profiles, msgSeq, sessSeq, arrived, turn, tx, api>>

\* Lines 83-88.
refiner_upsert(t) ==
    /\ ref[t].pc = "upsert"
    /\ user_profiles' = Upsert(user_profiles, ref[t].user_id, ref[t].new_memory)
    /\ ref' = [ref EXCEPT ![t].pc = "done"]
    /\ UNCHANGED <<sessions, messages, msgSeq, sessSeq, arrived, turn, tx, api>>

\* refiner_error with the upsert committed before the exception is raised.
refiner_error_after_write(t) ==
    /\ ref[t].pc \in {"read", "generate", "upsert"}
    /\ ref' = [ref EXCEPT ![t].pc = "failed"]
    /\ user_profiles' = IF ref[t].pc = "upsert"
                        THEN Upsert(user_profiles, ref[t].user_id, ref[t].new_memory)
                        ELSE user_profiles
    /\ UNCHANGED <<sessions, messages, msgSeq, sessSeq, arrived, turn, tx, api>>

\* Line 89: whatever raised (the read, the provider, the upsert), except: pass.
refiner_error(t) ==
    /\ ref[t].pc \in {"read", "generate", "upsert"}
    /\ ref' = [ref EXCEPT ![t].pc = "failed"]
    /\ UNCHANGED <<sessions, messages, user_profiles, msgSeq, sessSeq, arrived, turn, tx, api>>

\* -------------------------------------------------------------------- Next
Next ==
    \/ \E u \in Users : handle_sessions_post(u)
    \/ \E t \in Turns : chat_unauthorized(t)
    \/ \E t \in Turns : chat_store_down(t)
    \/ \E t \in Turns, u \in Users, sid \in SessionIds, text \in Texts, image \in ImageFiles :
          chat_assemble(t, u, sid, text, image)
    \/ \E t \in Turns : chat_generate(t)
    \/ \E t \in Turns, error \in ProviderErrors : chat_generate_error(t, error)
    \/ \E t \in Turns : chat_insert_user(t)
    \/ \E t \in Turns : chat_insert_bot(t)
    \/ \E t \in Turns : chat_commit(t)
    \/ \E t \in Turns : chat_store_error(t)
    \/ \E t \in Turns : chat_spawn(t)
    \/ \E t \in Turns : chat_title(t)
    \/ \E t \in Turns : chat_title_error(t)
    \/ \E t \in Turns : refiner_read(t)
    \/ \E t \in Turns : refiner_generate(t)
    \/ \E t \in Turns : refiner_upsert(t)
    \/ \E t \in Turns : refiner_error(t)

Spec == Init /\ [][Next]_vars

\* ------------------------------------------- /sessions/<id>, /history/<id>
\* One /sessions or /history request is followed at a time: the next one
\* starts when the previous one has returned.
ApiFree == api.pc \in {"idle", "done"}

ApiMethods == {"DELETE", "PUT"}
NewTitle == "Renamed"

ApiRequest(op, u, sid) ==
    [IdleApi EXCEPT !.op = op, !.user_id = u, !.session_id = sid,
                    !.target = Target(sessions, sid, u), !.conn = "open"]

\* Lines 154-155, 170-171, 185-186: no valid bearer token; no connection
\* is opened.
api_unauthorized(op) ==
    /\ ApiFree
    /\ api' = [IdleApi EXCEPT !.op = op, !.pc = "done",
                              !.response = [status |-> 401, body |-> "Unauthorized"]]
    /\ UNCHANGED <<sessions, messages, user_profiles, msgSeq, sessSeq, arrived, turn, tx, ref>>

\* Lines 163-166: GET /sessions lists the caller's sessions, newest first;
\* the connection is not closed.
handle_sessions_get(u) ==
    /\ ApiFree
    /\ api' = [IdleApi EXCEPT !.op = "GET", !.pc = "done", !.user_id = u,
                              !.conn = "open",
                              !.rows = OrderByIdDesc({x \in sessions : x.user_id = u}),
                              !.response = [status |-> 200, body |-> "sessions"]]
    /\ UNCHANGED <<sessions, messages, user_profiles, msgSeq, sessSeq, arrived, turn, tx, ref>>

\* Lines 172-175: the ownership query finds the caller's row.
manage_session_check(u, sid, method) ==
    /\ ApiFree
    /\ Target(sessions, sid, u) = "own"
    /\ api' = [ApiRequest(method, u, sid) EXCEPT !.pc = "checked"]
    /\ UNCHANGED <<sessions, messages, user_profiles, msgSeq, sessSeq, arrived, turn, tx, ref>>

\* Lines 172-175: the ownership query finds no row (no such session, or
\* somebody else's): 404, and the connection is not closed.
manage_session_denied(u, sid, method) ==
    /\ ApiFree
    /\ Target(sessions, sid, u) # "own"
    /\ api' = [ApiRequest(method, u, sid) EXCEPT
                  !.pc = "done",
                  !.response = [status |-> 404, body |-> "Access denied"]]
    /\ UNCHANGED <<sessions, messages, user_profiles, msgSeq, sessSeq, arrived, turn, tx, ref>>

ApiSuccess == [api EXCEPT !.pc = "done", !.conn = "closed",
                          !.response = [status |-> 200, body |-> "success"]]

\* A /chat request holds uncommitted rows that reference session sid (and
\* with them a key-share lock on the session's row).
ReferencedInFlight(sid) == \E t \in Turns : \E m \in tx[t] : m.session_id = sid

\* manage_session_delete without ON DELETE CASCADE on messages.session_id.
manage_session_delete_no_cascade ==
    /\ api.pc = "checked" /\ api.op = "DELETE"
    /\ ~ReferencedInFlight(api.session_id)
    /\ sessions' = {x \in sessions : x.id # api.session_id}
    /\ api' = ApiSuccess
    /\ UNCHANGED <<messages, user_profiles, msgSeq, sessSeq, arrived, turn, tx, ref>>

\* Lines 176-181: DELETE FROM sessions, with the cascade of line 59, and
\* the commit.  The statement waits while a /chat transaction holds
\* uncommitted rows of the session.
manage_session_delete ==
    /\ api.pc = "checked" /\ api.op = "DELETE"
    /\ ~ReferencedInFlight(api.session_id)
    /\ sessions' = {x \in sessions : x.id # api.session_id}
    /\ messages' = {m \in messages : m.session_id # api.session_id}
    /\ api' = ApiSuccess
    /\ UNCHANGED <<user_profiles, msgSeq, sessSeq, arrived, turn, tx, ref>>

\* Lines 177-181: UPDATE sessions SET title and the commit.
manage_session_rename ==
    /\ api.pc = "checked" /\ api.op = "PUT"
    /\ sessions' = SetTitle(sessions, api.session_id, NewTitle)
    /\ api' = ApiSuccess
    /\ UNCHANGED <<messages, user_profiles, msgSeq, sessSeq, arrived, turn, tx, ref>>

\* Lines 187-190: the ownership query of /history finds the caller's row.
get_history_check(u, sid) ==
    /\ ApiFree
    /\ Target(sessions, sid, u) = "own"
    /\ api' = [ApiRequest("history", u, sid) EXCEPT !.pc = "checked"]
    /\ UNCHANGED <<sessions, messages, user_profiles, msgSeq, sessSeq, arrived, turn, tx, ref>>

\* Lines 187-190: the ownership query finds no row: 403, and the
\* connection is not closed.
get_history_denied(u, sid) ==
    /\ ApiFree
    /\ Target(sessions, sid, u) # "own"
    /\ api' = [ApiRequest("history", u, sid) EXCEPT
                  !.pc = "done",
                  !.response = [status |-> 403, body |-> "Access denied"]]
    /\ UNCHANGED <<sessions, messages, user_profiles, msgSeq, sessSeq, arrived, turn, tx, ref>>

\* Lines 191-193: the session's messages, oldest first; the connection is
\* not closed.
get_history_fetch ==
    /\ api.pc = "checked" /\ api.op = "history"
    /\ api' = [api EXCEPT !.pc = "done",
                          !.rows = Reverse(OrderByIdDesc(SessionRows(messages, api.session_id))),
                          !.response = [status |-> 200, body |-> "Chat"]]
    /\ UNCHANGED <<sessions, messages, user_profiles, msgSeq, sessSeq, arrived, turn, tx, ref>>

\* The requests of the session pages: /sessions, /sessions/<id>,
\* /history/<id>, and /chat with a text and no image.
NextSessions ==
    \/ \E u \in Users : handle_sessions_post(u)
    \/ \E op \in {"GET", "DELETE", "PUT", "history"} : api_unauthorized(op)
    \/ \E u \in Users : handle_sessions_get(u)
    \/ \E u \in Users, sid \in SessionIds, method \in ApiMethods :
          manage_session_check(u, sid, method)
    \/ \E u \in Users, sid \in SessionIds, method \in ApiMethods :
          manage_session_denied(u, sid, method)
    \/ manage_session_delete
    \/ manage_session_rename
    \/ \E u \in Users, sid \in SessionIds : get_history_check(u, sid)
    \/ \E u \in Users, sid \in SessionIds : get_history_denied(u, sid)
    \/ get_history_fetch
    \/ \E t \in Turns, u \in Users, sid \in SessionIds : chat_assemble(t, u, sid, "q", "none")
    \/ \E t \in Turns : chat_generate(t)
    \/ \E t \in Turns : chat_insert_user(t)
    \/ \E t \in Turns : chat_insert_bot(t)
    \/ \E t \in Turns : chat_commit(t)
    \/ \E t \in Turns : chat_spawn(t)
    \/ \E t \in Turns : chat_title(t)

SpecSessions == Init /\ [][NextSessions]_vars

\* ------------------------------------------------- the history assembly
\* A stored exchange: the user's row with any text and any attachment
\* column, then the reply's row.
StoredExchange(j, text, image) ==
    {[id |-> 2 * j - 1, session_id |-> 1, sender |-> "user", content |-> text,
      has_image |-> image # "none", image_data |-> image, turn |-> 1 - j],
     [id |-> 2 * j, session_id |-> 1, sender |-> "bot", content |-> "reply",
      has_image |-> FALSE, image_data |-> "none", turn |-> 1 - j]}

\* Session 1 holds MaxPrior exchanges whose texts and attachment columns
\* are anything the table can hold.
InitAssemble ==
    /\ sessions = {[id |-> 1, user_id |-> "u1", title |-> "Generated"]}
    /\ \E text \in [1..MaxPrior -> Texts], image \in [1..MaxPrior -> StoredImages] :
          messages = UNION {StoredExchange(j, text[j], image[j]) : j \in 1..MaxPrior}
    /\ user_profiles = {}
    /\ msgSeq = 2 * MaxPrior
    /\ sessSeq = 1
    /\ arrived = 0
    /\ turn = [t \in Turns |-> IdleTurn]
    /\ tx = [t \in Turns |-> {}]
    /\ ref = [t \in Turns |-> IdleRefiner]
    /\ api = IdleApi

\* Lines 198-272 of /chat on any stored window.
NextAssemble ==
    \E t \in Turns, u \in Users, sid \in SessionIds, text \in Texts, image \in ImageFiles :
        chat_assemble(t, u, sid, text, image)

SpecAssemble == InitAssemble /\ [][NextAssemble]_vars

\* ================================================================== claims
Authenticated(t) == turn[t].pc # "idle" /\ turn[t].user_id \in Users

\* The committed rows a /chat request wrote.
RowsOf(t) == {m \in messages : m.turn = t}

\* The request's session exists and belongs to somebody else.
ForeignSession(t) ==
    \E s \in sessions : s.id = turn[t].session_id /\ s.user_id # turn[t].user_id

\* The request's session exists and belongs to the requesting user.
OwnSession(t) ==
    \E s \in sessions : s.id = turn[t].session_id /\ s.user_id = turn[t].user_id

\* The request carries a text or a decodable image.
HasInput(t) == turn[t].user_text # "" \/ turn[t].image_b64 # "none"

\* The two rows of a request: the user's raw text first, then the reply.
PersistedPair(t) ==
    \E um \in RowsOf(t), bm \in RowsOf(t) :
        /\ RowsOf(t) = {um, bm}
        /\ um.id < bm.id
        /\ um.sender = "user" /\ um.content = turn[t].user_text
        /\ bm.sender = "bot" /\ bm.content = turn[t].ai_reply
        /\ um.session_id = turn[t].session_id /\ bm.session_id = turn[t].session_id

RefinerRunning(t) == ref[t].pc \in {"read", "generate", "upsert"}

\* C1: a turn sent by a user to a session owned by somebody else is rejected
\* with "Access denied", persists no message and makes no model call.  (Stated
\* of the turns that carry an input, which no other check would reject.)
C1_ForeignTurnRejected ==
    \A t \in Turns :
        (Authenticated(t) /\ ForeignSession(t) /\ HasInput(t)) =>
            /\ turn[t].calls = 0
            /\ RowsOf(t) = {}
            /\ turn[t].pc = "done" => turn[t].response.body = "Access denied"

\* C2: a turn with neither text nor a decodable image is rejected with
\* EmptyInput, makes no model call and persists no message.  (Stated of the
\* turns a user sends to a session of their own.)
C2_EmptyTurnRejected ==
    \A t \in Turns :
        (Authenticated(t) /\ OwnSession(t) /\ ~HasInput(t)) =>
            /\ turn[t].calls = 0
            /\ RowsOf(t) = {}
            /\ turn[t].pc = "done" => turn[t].response.body = "EmptyInput"

\* C3: a turn whose reply call raised ends with status 500 and the provider's
\* error, has no row of its own in the store or in an open transaction, and
\* has started no refinement thread.
C3_ProviderErrorNoSideEffect ==
    \A t \in Turns :
        (turn[t].calls > 0 /\ turn[t].ai_reply = "") =>
            /\ turn[t].pc = "done"
            /\ turn[t].response.status = 500
            /\ turn[t].response.body \in ProviderErrors
            /\ RowsOf(t) = {}
            /\ tx[t] = {}
            /\ ref[t].pc = "none"

\* C3's case: the session exists, the text is not empty, and the provider
\* answered the reply call with a rate-limit error.
C3_Witness ==
    \E t \in Turns :
        /\ turn[t].response = [status |-> 500, body |-> "RateLimited"]
        /\ turn[t].user_text # ""
        /\ SessionExists(turn[t].session_id)

\* C4: the store holds of every turn either no row or exactly its pair, the
\* user's row with the text as submitted before the reply's row; a turn past
\* its commit has the pair, a turn that has not committed has none.
C4_PairOrNothing ==
    \A t \in Turns :
        /\ RowsOf(t) = {} \/ PersistedPair(t)
        /\ turn[t].pc \in {"spawn", "title"} => PersistedPair(t)
        /\ turn[t].response.status = 200 => PersistedPair(t)
        /\ turn[t].pc \in {"idle", "generate", "insert_user", "insert_bot", "commit"}
              => RowsOf(t) = {}
        /\ turn[t].response.status = 500 => RowsOf(t) = {}

\* C4's case: a turn has committed its pair, its request to the provider
\* having carried a dossier that is not the sentinel.
C4_Witness ==
    \E t \in Turns :
        /\ PersistedPair(t)
        /\ turn[t].user_text # ""
        /\ turn[t].user_profile # NoPriorInformation

\* C5: a turn whose reply was generated returns that reply, also when
\* persisting its two rows failed.  (Stated of the turns with an input that
\* a user sends to a session of their own.)
C5_ReplyReturnedDespiteStoreError ==
    \A t \in Turns :
        (turn[t].pc = "done" /\ turn[t].ai_reply # "" /\ OwnSession(t) /\ HasInput(t))
            => turn[t].response = Reply(t)

\* C6: a refinement thread exists only for a turn whose pair is committed,
\* and a turn that has started its thread can always go on to its return,
\* whatever the thread is doing.
C6_RefinerAfterCommitNotAwaited ==
    \A t \in Turns :
        /\ ref[t].pc # "none" => PersistedPair(t)
        /\ turn[t].pc = "title" => ENABLED chat_title(t)
        /\ turn[t].pc = "spawn" => ENABLED chat_spawn(t)

\* C6's case: the turn has returned its reply while its thread has not done
\* its first read.
C6_Witness ==
    \E t \in Turns :
        /\ turn[t].pc = "done"
        /\ turn[t].response = Reply(t)
        /\ ref[t].pc = "read"

\* A refinement that raised: its step changes neither the store nor any
\* turn, and it stays ended.
RefinerFailureAbsorbed(t) ==
    /\ (RefinerRunning(t) /\ ref'[t].pc = "failed") =>
          UNCHANGED <<sessions, messages, user_profiles, turn, tx, msgSeq, api>>
    /\ ref[t].pc = "failed" => ref'[t] = ref[t]

\* C7: a failure inside a refinement ends the thread for good, leaves every
\* stored profile as it was, and leaves the turn that started it with its
\* pair persisted and its reply returned.
C7_RefinerFailureAbsorbed ==
    /\ [][\A t \in Turns : RefinerFailureAbsorbed(t)]_vars
    /\ [](\A t \in Turns : ref[t].pc = "failed" =>
            /\ PersistedPair(t)
            /\ turn[t].pc = "done" => turn[t].response = Reply(t)
            /\ \A p \in user_profiles : t \notin p.profile_data)

\* C7's case: the upsert of a refinement raised after its turn returned.
C7_Witness ==
    \E t \in Turns :
        /\ ref[t].pc = "failed"
        /\ t \in ref[t].new_memory
        /\ turn[t].pc = "done"
        /\ turn[t].response = Reply(t)

\* C8: the upsert of a refinement stores the dossier computed from what that
\* refinement read, whatever the row holds by then: nothing spans the read
\* and the upsert, so the last upsert decides the stored profile.
C8_LastUpsertWins ==
    [][\A t \in Turns :
          (ref[t].pc = "upsert" /\ ref'[t].pc = "done") =>
              get_long_term_memory(user_profiles', ref[t].user_id)
                  = RefinedDossier(ref[t].current_memory, t)]_vars

\* C8's case, the lost update: two refinements of one owner read the same
\* profile, both upserts committed, and the stored profile lacks the fact
\* the earlier one added.
C8_Witness ==
    \E a \in Turns, b \in Turns :
        /\ a # b
        /\ ref[a].pc = "done" /\ ref[b].pc = "done"
        /\ ref[a].user_id = ref[b].user_id
        /\ ref[a].current_memory = ref[b].current_memory
        /\ get_long_term_memory(user_profiles, ref[a].user_id) = ref[b].new_memory
        /\ a \notin get_long_term_memory(user_profiles, ref[a].user_id)

\* C9: user_profiles holds at most one row per owner, and exactly one for
\* the owner of a refinement that completed.
C9_OneProfileRowPerOwner ==
    /\ \A u \in Users : Cardinality({p \in user_profiles : p.user_id = u}) <= 1
    /\ \A t \in Turns : ref[t].pc = "done" =>
          Cardinality({p \in user_profiles : p.user_id = ref[t].user_id}) = 1

\* C9's case: two refinements of one owner completed, both having read the
\* sentinel (the owner had no row), and the owner has one row.
C9_Witness ==
    \E a \in Turns, b \in Turns :
        /\ a # b
        /\ ref[a].pc = "done" /\ ref[b].pc = "done"
        /\ ref[a].user_id = ref[b].user_id
        /\ ref[a].current_memory = NoPriorInformation
        /\ ref[b].current_memory = NoPriorInformation
        /\ Cardinality({p \in user_profiles : p.user_id = ref[a].user_id}) = 1

\* The window of session sid over the committed rows: at most HistoryLimit
\* rows of that session, those with the largest ids, in ascending id order.
WindowCorrect(sid) ==
    LET w == FetchHistory(messages, sid)
        rows == SessionRows(messages, sid)
        inWindow == {w[i] : i \in 1..Len(w)}
    IN /\ Len(w) <= HistoryLimit
       /\ Len(w) = IF Cardinality(rows) < HistoryLimit THEN Cardinality(rows)
                   ELSE HistoryLimit
       /\ inWindow \subseteq rows
       /\ \A i \in 1..Len(w), j \in 1..Len(w) : i < j => w[i].id < w[j].id
       /\ \A m \in rows \ inWindow : \A r \in inWindow : m.id < r.id

\* C10: for every session and every committed message log, the history
\* window holds at most 5 rows, the session's rows with the largest ids, in
\* strictly ascending id order; the window a turn holds is such a window.
C10_HistoryWindow ==
    /\ \A sid \in SessionIds : WindowCorrect(sid)
    /\ \A t \in Turns :
          /\ Len(turn[t].history) <= HistoryLimit
          /\ \A i \in 1..Len(turn[t].history) :
                /\ turn[t].history[i].session_id = turn[t].session_id
                /\ i > 1 => turn[t].history[i - 1].id < turn[t].history[i].id

\* C10's case: a turn holds a full window of a session with more rows than
\* the limit, some of them written by another turn of this run.
C10_Witness ==
    \E t \in Turns, o \in Turns :
        /\ turn[t].pc = "generate"
        /\ Len(turn[t].history) = HistoryLimit
        /\ Cardinality(SessionRows(messages, turn[t].session_id)) > HistoryLimit
        /\ \E i \in 1..HistoryLimit : turn[t].history[i].turn = o

HasProfileRow(u) == \E p \in user_profiles : p.user_id = u

\* C11: for an owner with no profile row the dossier read is the sentinel,
\* in the request a turn assembled and in a refinement, and a refinement that
\* read the sentinel goes on: its provider call is enabled and its dossier
\* holds the exchange's fact and not the sentinel.
C11_NoProfileReadsSentinel ==
    /\ \A u \in Users :
          ~HasProfileRow(u) => get_long_term_memory(user_profiles, u) = NoPriorInformation
    /\ \A t \in Turns :
          (Authenticated(t) /\ ~HasProfileRow(turn[t].user_id)) =>
              turn[t].user_profile = NoPriorInformation
    /\ \A t \in Turns :
          (ref[t].pc \in {"generate", "upsert", "done"} /\ ~HasProfileRow(ref[t].user_id)) =>
              ref[t].current_memory = NoPriorInformation
    /\ \A t \in Turns :
          (ref[t].pc = "generate" /\ ref[t].current_memory = NoPriorInformation) =>
              ENABLED refiner_generate(t)
    /\ \A t \in Turns :
          (ref[t].pc \in {"upsert", "done"} /\ ref[t].current_memory = NoPriorInformation) =>
              ref[t].new_memory = {t}

\* C11's case: the first refinement of an owner read the sentinel and
\* completed, and the owner's row now holds the dossier it computed.
C11_Witness ==
    \E t \in Turns :
        /\ ref[t].pc = "done"
        /\ ref[t].current_memory = NoPriorInformation
        /\ turn[t].user_profile = NoPriorInformation
        /\ get_long_term_memory(user_profiles, ref[t].user_id) = {t}

\* The rows written so far, committed or not.
WrittenRows == messages \cup UNION {tx[o] : o \in Turns}

\* C19: two turns on one session are not serialised: a request's INSERT is
\* never held back by the uncommitted rows of another request (the user's
\* row and the reply's row can each be written whatever the other requests
\* have in flight), and message ids are handed out one per INSERT, so the
\* rows of concurrent turns are ordered by the order of their INSERTs.
C19_InsertsNotSerialised ==
    /\ \A t \in Turns : turn[t].pc = "insert_user" => ENABLED chat_insert_user(t)
    /\ \A t \in Turns : turn[t].pc = "insert_bot" => ENABLED chat_insert_bot(t)
    /\ \A m1 \in WrittenRows, m2 \in WrittenRows : m1.id = m2.id => m1 = m2
    /\ \A m \in WrittenRows : m.id <= msgSeq

\* C19's case: both turns of one session committed, and by id the user
\* message of one lies between the user message and the reply of the other.
C19_Witness ==
    \E t \in Turns, o \in Turns :
        /\ t # o
        /\ turn[t].session_id = turn[o].session_id
        /\ PersistedPair(t) /\ PersistedPair(o)
        /\ \E um \in RowsOf(t), bm \in RowsOf(t), ou \in RowsOf(o) :
              /\ um.sender = "user" /\ bm.sender = "bot" /\ ou.sender = "user"
              /\ um.id < ou.id /\ ou.id < bm.id

\* The request went past line 293.
PastSpawn(t) ==
    \/ turn[t].pc = "title"
    \/ turn[t].pc = "done" /\ turn[t].response.status = 200

\* The refinement thread of the request was started.
Launched(t) == ref[t].pc # "none"

C20_LaunchedIff ==
    \A t \in Turns :
        /\ Launched(t) <=> (PastSpawn(t) /\ turn[t].user_text # "")
        /\ Launched(t) =>
              /\ turn[t].calls = 1 /\ turn[t].ai_reply # ""
              /\ PersistedPair(t)
              /\ ref[t].user_id = turn[t].user_id
        /\ (turn[t].pc # "idle" /\ turn[t].user_text = "") =>
              /\ ~Launched(t)
              /\ \A p \in user_profiles : t \notin p.profile_data

C20_LaunchedOnce ==
    \A t \in Turns :
        /\ Launched(t) => Launched(t)'
        /\ (~Launched(t) /\ Launched(t)') =>
              /\ turn[t].pc = "spawn" /\ turn'[t].pc # "spawn"
              /\ ref'[t].pc = "read"
        /\ (turn[t].user_text = "" /\ turn'[t] # turn[t] /\ turn[t].pc # "idle") =>
              user_profiles' = user_profiles

\* C20: a turn's refinement thread is started exactly when the reply was
\* generated, both rows were committed and the user text is not empty; it is
\* started once, at the step after the commit; a turn with an empty text
\* (image only) starts none, no step of it changes user_profiles, and what
\* it said never enters a dossier.
C20_OneRefinerIffTextCommitted == []C20_LaunchedIff /\ [][C20_LaunchedOnce]_vars

\* C20's case: a turn with a text finished and its refinement ran, and an
\* image-only turn finished with both rows committed and no refinement.
C20_Witness ==
    \E t \in Turns, o \in Turns :
        /\ turn[t].pc = "done" /\ turn[t].user_text # "" /\ ref[t].pc = "done"
        /\ turn[o].pc = "done" /\ turn[o].user_text = "" /\ turn[o].image_b64 # "none"
        /\ PersistedPair(o) /\ turn[o].response = Reply(o) /\ ~Launched(o)

\* C15: the title is generated for the first exchange only: of the turns
\* their owner sends with some input to one session, at most one makes the
\* title call, and a turn that made it found no committed message of another
\* turn in the session.
C15_TitleOnlyFirstExchange ==
    \A t \in Turns, o \in Turns :
        (/\ t # o
         /\ turn[t].session_id = turn[o].session_id
         /\ OwnSession(t) /\ HasInput(t)
         /\ OwnSession(o) /\ HasInput(o))
        => ~(turn[t].title_calls >= 1 /\ turn[o].title_calls >= 1)

\* The title step of the request raised.
TitleFailed(t) == turn[t].titled = "failed"

C16_AfterTitleFailure ==
    \A t \in Turns :
        TitleFailed(t) =>
            /\ turn[t].pc = "done"
            /\ turn[t].response = Reply(t)
            /\ PersistedPair(t)
            /\ (\A o \in Turns : turn[o].titled # "ok") =>
                  \A s \in sessions :
                      s.id = turn[t].session_id => s.title = DefaultTitle

C16_TitleFailureStep ==
    \A t \in Turns :
        (~TitleFailed(t) /\ TitleFailed(t)') =>
            /\ turn[t].pc = "title"
            /\ sessions' = sessions
            /\ messages' = messages
            /\ turn'[t].calls = turn[t].calls
            /\ turn'[t].ai_reply = turn[t].ai_reply

\* C16: a failure of the title generation is swallowed: the turn answers
\* 200 with its reply, its two rows stay committed, the failing step leaves
\* sessions and messages as they were, and the session keeps the default
\* title unless another turn wrote one.
C16_TitleFailureSwallowed == []C16_AfterTitleFailure /\ [][C16_TitleFailureStep]_vars

\* C16's case: the first turn of a new session committed its pair, its
\* title step raised, and it returned with the title still the default.
C16_Witness ==
    \E t \in Turns :
        /\ TitleFailed(t)
        /\ turn[t].response = Reply(t)
        /\ PersistedPair(t)
        /\ \E s \in sessions : s.id = turn[t].session_id /\ s.title = DefaultTitle

\* C17: every store connection an operation opened is released by the time
\* the operation ends, on every exit path: no finished /sessions or
\* /history request and no finished /chat request holds an open connection.
C17_ConnectionsReleased ==
    /\ api.pc = "done" => api.conn # "open"
    /\ \A t \in Turns : turn[t].pc = "done" => turn[t].conn # "open"

\* Every message row, committed or not, references a session that exists.
NoOrphanMessage == \A m \in WrittenRows : SessionExists(m.session_id)

\* The step is the DELETE of a manage_session request.
DeleteStep == api.pc = "checked" /\ api.op = "DELETE" /\ api'.pc = "done"

\* The step is a manage_session request answered at its ownership query.
ManageDeniedStep ==
    /\ api' # api
    /\ api'.op \in ApiMethods
    /\ api'.pc = "done"
    /\ api'.response.status # 200

C12_DeleteStep ==
    /\ DeleteStep =>
          /\ api.target = "own"
          /\ \A x \in sessions' : x.id # api.session_id
          /\ \A m \in messages' : m.session_id # api.session_id
          /\ sessions' = {x \in sessions : x.id # api.session_id}
          /\ messages' = {m \in messages : m.session_id # api.session_id}
          /\ api'.response = [status |-> 200, body |-> "success"]
    /\ ManageDeniedStep =>
          /\ api'.response.status \in {401, 404}
          /\ sessions' = sessions
          /\ messages' = messages
    /\ (api' # api /\ api'.op \in ApiMethods /\ api'.target \in {"foreign", "missing"}) =>
          /\ api'.pc = "done"
          /\ api'.response = [status |-> 404, body |-> "Access denied"]

\* C12: a delete by the session's owner removes the session's row and all
\* its messages in one step, so that in no state a message is left whose
\* session is gone; a delete by anybody else is answered at the ownership
\* query and leaves sessions and messages as they were.
C12_DeleteAtomicOrRejected == []NoOrphanMessage /\ [][C12_DeleteStep]_vars

\* C12's case: a turn committed its pair to a session, the owner then
\* deleted the session, and neither the session nor any message is left.
C12_Witness ==
    /\ api.op = "DELETE" /\ api.pc = "done" /\ api.response.status = 200
    /\ \E t \in Turns :
          /\ turn[t].response = Reply(t)
          /\ turn[t].session_id = api.session_id
          /\ RowsOf(t) = {}
    /\ ~SessionExists(api.session_id)
    /\ SessionRows(messages, api.session_id) = {}

AccessDenied == "Access denied"

\* C13: rename, delete, fetch history and submit a turn answer a session
\* that does not exist exactly as they answer a session owned by somebody
\* else: with AccessDenied in both cases.
C13_MissingLikeForeign ==
    /\ (api.pc = "done" /\ api.target \in {"foreign", "missing"}) =>
          api.response.body = AccessDenied
    /\ \A t \in Turns :
          (turn[t].pc = "done" /\ HasInput(t) /\ turn[t].target \in {"foreign", "missing"}) =>
              turn[t].response.body = AccessDenied
    /\ \A t \in Turns, o \in Turns :
          (/\ turn[t].pc = "done" /\ turn[o].pc = "done"
           /\ HasInput(t) /\ HasInput(o)
           /\ turn[t].target = "missing" /\ turn[o].target = "foreign") =>
              turn[t].response = turn[o].response

\* C14: the messages of a session are read only on behalf of its owner:
\* a /history answer that carries messages went to the owner, and a /chat
\* request that holds a non-empty history window of a session is the
\* owner's.
C14_MessagesReadForOwnerOnly ==
    /\ (api.op = "history" /\ api.rows # <<>>) => api.target = "own"
    /\ \A t \in Turns :
          (HasInput(t) /\ turn[t].history # <<>>) => turn[t].target = "own"

\* The stored attachment of a row decodes: it is the text /chat wrote, or
\* one that base64 accepts.
WellFormed(row) == row.has_image /\ row.image_data \in {"b64", "garbled"}

\* The row has an attachment and it does not decode.
Malformed(row) == row.has_image /\ row.image_data \in {"truncated", "short"}

\* The bytes a well-formed stored attachment stands for.
StoredBytes(row) == IF row.image_data = "b64" THEN "jpeg" ELSE "bytes"

\* The row has something to show: a text or an attachment that decodes.
Shown(row) == row.content # "" \/ WellFormed(row)

\* The part of the provider request built from the history window: all of
\* it but the current message.
HistoryPartOf(t) ==
    SubSeq(turn[t].contents, 1,
           Len(turn[t].contents) - (IF HasInput(t) THEN 1 ELSE 0))

TextsIn(parts) == SelectSeq(parts, LAMBDA x : x.kind = "text")
ImagesIn(parts) == SelectSeq(parts, LAMBDA x : x.kind = "image")

\* C18: a malformed attachment in the history window does not make the
\* assembly fail and costs only itself: the request holds, in the window's
\* order, one entry per message that has a text or a well-formed
\* attachment, with the message's role, its text whether or not its
\* attachment decodes, the decoded attachment exactly for the well-formed
\* ones, and no part made from a malformed attachment.
C18_MalformedAttachmentContained ==
    \A t \in Turns :
        turn[t].pc # "idle" /\ turn[t].user_id \in Users =>
            LET kept == SelectSeq(turn[t].history, Shown)
                hc == HistoryPartOf(t)
            IN /\ turn[t].pc = "generate"
               /\ Len(hc) = Len(kept)
               /\ \A i \in 1..Len(kept) :
                     /\ hc[i].role = (IF kept[i].sender = "user" THEN "user" ELSE "model")
                     /\ TextsIn(hc[i].parts) =
                           (IF kept[i].content # ""
                            THEN <<[kind |-> "text", data |-> kept[i].content]>>
                            ELSE <<>>)
                     /\ ImagesIn(hc[i].parts) =
                           (IF WellFormed(kept[i])
                            THEN <<[kind |-> "image", data |-> StoredBytes(kept[i])]>>
                            ELSE <<>>)
                     /\ Len(hc[i].parts) = Len(TextsIn(hc[i].parts)) + Len(ImagesIn(hc[i].parts))

\* C18's case: a request was assembled over a window in which exactly one
\* message has a malformed attachment, next to its text, and another
\* message has a well-formed one; the text of the first and the attachment
\* of the second are in the request.
C18_Witness ==
    \E t \in Turns :
        /\ turn[t].pc = "generate"
        /\ Cardinality({i \in 1..Len(turn[t].history) : Malformed(turn[t].history[i])}) = 1
        /\ \E i \in 1..Len(turn[t].history) :
              Malformed(turn[t].history[i]) /\ turn[t].history[i].content # ""
        /\ \E i \in 1..Len(turn[t].history) : turn[t].history[i].image_data = "b64"
        /\ Len(HistoryPartOf(t)) = Len(turn[t].history)
        /\ \E i \in 1..Len(HistoryPartOf(t)) : ImagesIn(HistoryPartOf(t)[i].parts) # <<>>

====
